---- MODULE Spec2Model ----
(***************************************************************************)
(* CodepageEncoder: Unicode text to single-byte codepages.                 *)
(*                                                                         *)
(* Runtime (src/src/codepage-encoder.ts): getEncodings, getEncoding,       *)
(* supports, encode, autoEncode, getCodepoints over the static tables      *)
(* `definitions` and `aliases`.                                            *)
(* Build step (src/unnamed/part_000): getEncoding, getDefinition and the   *)
(* text the definitions are written as.                                    *)
(*                                                                         *)
(* Encodings used throughout:                                              *)
(*   - a JS string is the sequence of its UTF-16 code units;               *)
(*   - a JS array is a sequence, JS index i being element i + 1;           *)
(*   - an element of a number[] is an integer, `undefined` for a hole;     *)
(*   - an element of a definition's `value` is a tagged slot (Hole, Num,   *)
(*     Obj), its tag being what `typeof` answers;                          *)
(*   - an object's optional property is a record field that is present or  *)
(*     not (Has);                                                          *)
(*   - a `string | undefined` is None or Some(s).                          *)
(*                                                                         *)
(* The tables are 256 slots each, so the state holds what tells them       *)
(* apart (`loaded`, `files`) and `definitions`, `aliases` and `fileOf` give *)
(* the tables themselves.                                                  *)
(***************************************************************************)
EXTENDS Integers, Sequences, FiniteSets, TLC

VARIABLES
  loaded,           \* which generated/definitions.ts and aliases.ts are in force
  pc,               \* the call in progress, "done" once it returned
  input,            \* the text argument
  codepage,         \* the codepage argument
  candidates,       \* autoEncode's candidates argument
  c,                \* autoEncode's loop index
  output,           \* the value returned by encode / getEncoding
  fragments,        \* autoEncode's fragments
  currentFragment,  \* autoEncode's currentFragment
  encodings,        \* data/encodings.js, read by the build step
  files             \* data/encodings/*.txt, read by the build step

vars == <<loaded, pc, input, codepage, candidates, c, output, fragments,
          currentFragment, encodings, files>>

-----------------------------------------------------------------------------
(* JavaScript values *)

undefined == -1

Hole == [type |-> "undefined"]
Num(n) == [type |-> "number", v |-> n]
Obj(a) == [type |-> "object", v |-> a]
typeof(x) == x.type

Has(obj, key) == key \in DOMAIN obj

\* an object without properties
EmptyRecord == [k \in {} |-> 0]

None == <<>>
Some(s) == <<s>>
\* JS truthiness of a string | undefined
Truthy(o) == o # None /\ o[1] # ""

Uint8(n) == n % 256

\* Math.min over a non-empty set of numbers
Lowest(S) == CHOOSE b \in S : \A h \in S : b <= h

-----------------------------------------------------------------------------
(* Program constants *)

TableSize == 256
SparseLen == 16
Sentinel == 65533
QuestionMark == 63
NotFound == -1

\* String.prototype.codePointAt(pos), pos a JS index below the length
codePointAt(s, pos) ==
  LET first == s[pos + 1]
  IN IF first >= 55296 /\ first <= 56319 /\ pos + 1 < Len(s)
        /\ s[pos + 2] >= 56320 /\ s[pos + 2] <= 57343
       THEN (first - 55296) * 1024 + (s[pos + 2] - 56320) + 65536
       ELSE first

\* a findIndex that answers the last index holding codePoint
findIndexLast(codepoints, codePoint) ==
  LET hits == {k \in 1..Len(codepoints) : codepoints[k] = codePoint}
  IN IF hits = {} THEN NotFound
     ELSE (CHOOSE k \in hits : \A h \in hits : k >= h) - 1

\* Array.prototype.findIndex((i) => i === codePoint): the first index,
\* front to back, whose element is codePoint, or -1
findIndex(codepoints, codePoint) ==
  LET hits == {k \in 1..Len(codepoints) : codepoints[k] = codePoint}
  IN IF hits = {} THEN NotFound
     ELSE (CHOOSE k \in hits : \A h \in hits : k <= h) - 1

-----------------------------------------------------------------------------
(* getCodepoints / getEncoding / supports / getEncodings                   *)
(* The code reads the module-level tables `definitions` and `aliases`;     *)
(* here they are the first two parameters, defs and als.                   *)

RECURSIVE getCodepoints(_, _, _, _), getEncoding(_, _, _)

\* sparse-diff form, lines 226-243: codepoints[i * 16 + j] = value[i][j]
\* wherever value[i] is an object and value[i][j] a number
overlaySparse(codepoints, value) ==
  [k \in 1..Len(codepoints) |->
     LET i == (k - 1) \div 16
         j == (k - 1) % 16
     IN IF /\ i < 16
           /\ typeof(value[i + 1]) = "object"
           /\ j + 1 <= Len(value[i + 1].v)
           /\ typeof(value[i + 1].v[j + 1]) = "number"
          THEN value[i + 1].v[j + 1].v
          ELSE codepoints[k]]

\* dense form, lines 245-254: codepoints[offset + i] = value[i] wherever
\* value[i] is a number; an assignment past the end lengthens the array
overlayDense(codepoints, value, offset) ==
  LET written == {i \in 0..(Len(value) - 1) : typeof(value[i + 1]) = "number"}
      top == IF written = {} THEN 0
             ELSE offset + 1 + CHOOSE i \in written : \A h \in written : h <= i
      length == IF top > Len(codepoints) THEN top ELSE Len(codepoints)
  IN [k \in 1..length |->
        IF (k - 1 - offset) \in written THEN value[k - offset].v
        ELSE IF k <= Len(codepoints) THEN codepoints[k]
        ELSE undefined]

\* lines 223-256: the definition's own value laid over codepoints
overlayValue(definition, codepoints) ==
  IF ~Has(definition, "value") THEN codepoints
  ELSE IF Len(definition.value) = SparseLen
    THEN overlaySparse(codepoints, definition.value)
    ELSE overlayDense(codepoints, definition.value,
                      IF Has(definition, "offset") THEN definition.offset ELSE 0)

\* getCodepoints with the fill(0xfffd) of line 217 left out
getCodepointsNoFill(defs, als, cp, evaluateExtends) ==
  overlayValue(defs[cp],
    IF evaluateExtends /\ Has(defs[cp], "extends")
      THEN getEncoding(defs, als, defs[cp].extends).codepoints
      ELSE [k \in 1..TableSize |-> undefined])

\* lines 212-259
getCodepoints(defs, als, cp, evaluateExtends) ==
  overlayValue(defs[cp],
    IF evaluateExtends
      THEN IF ~Has(defs[cp], "extends")
             THEN [k \in 1..TableSize |-> Sentinel]
             ELSE getEncoding(defs, als, defs[cp].extends).codepoints
      ELSE [k \in 1..TableSize |-> undefined])

\* a resolveName that falls back to "cp437"
resolveNameCp437(defs, als, cp) ==
  LET redirected == IF cp \in DOMAIN als THEN als[cp] ELSE cp
  IN IF redirected \notin DOMAIN defs THEN "cp437" ELSE redirected

\* lines 28-34: one alias redirection, then the fallback to "ascii"
resolveName(defs, als, cp) ==
  LET redirected == IF cp \in DOMAIN als THEN als[cp] ELSE cp
  IN IF redirected \notin DOMAIN defs THEN "ascii" ELSE redirected

\* lines 27-43
getEncoding(defs, als, cp) ==
  [codepoints |-> getCodepoints(defs, als, resolveName(defs, als, cp), TRUE)]
    @@ defs[resolveName(defs, als, cp)]

\* lines 84-94
supports(defs, als, cp) ==
  LET redirected == IF cp \in DOMAIN als THEN als[cp] ELSE cp
  IN redirected \in DOMAIN defs

\* lines 17-19
getEncodings(defs) == DOMAIN defs

-----------------------------------------------------------------------------
(* The static tables: a registry in the format the build step writes *)

\* "ascii" as generateDefinitions writes it: bytes 0-127 map to themselves,
\* the rest of the 256 slots are holes (the last one is lost with the
\* trailing comma)
AsciiValue == [k \in 1..255 |-> IF k <= 128 THEN Num(k - 1) ELSE Hole]

\* a full table, dense from byte 0: U+00E9 at 0x82, box drawing elsewhere
\* in the upper half
Cp437Value ==
  [k \in 1..256 |->
     IF k <= 128 THEN Num(k - 1)
     ELSE IF k - 1 = 130 THEN Num(233)
     ELSE Num(9472 + k)]

\* sparse-diff on "ascii": U+03C8 at 0xF6, U+00A0 at 0xFF
Cp869Value ==
  [i \in 1..16 |->
     IF i = 16
       THEN Obj([j \in 1..16 |->
                   IF j - 1 = 6 THEN Num(968)
                   ELSE IF j - 1 = 15 THEN Num(160)
                   ELSE Hole])
       ELSE Hole]

\* dense from byte 128 on "cp437": U+00E9 a second time at 0xC8,
\* U+03C8 at 0xFA
Cp858Value ==
  [k \in 1..123 |->
     IF k - 1 = 72 THEN Num(233)
     ELSE IF k - 1 = 122 THEN Num(968)
     ELSE Hole]

BaseDefinitions ==
  [ascii |-> [name |-> "ASCII", value |-> AsciiValue],
   cp437 |-> [name |-> "USA, Standard Europe", languages |-> <<"en">>,
              value |-> Cp437Value],
   cp869 |-> [name |-> "Greek", languages |-> <<"el">>, extends |-> "ascii",
              value |-> Cp869Value],
   cp858 |-> [name |-> "Euro", languages |-> <<"en">>, extends |-> "cp437",
              offset |-> 128, value |-> Cp858Value]]

BaseAliases == [ibm437 |-> "cp437", oem |-> "cp000"]

\* codepage names a caller passes: identifiers, aliases, unknown names
Names == {"ascii", "cp437", "cp869", "cp858", "ibm437", "oem", "zz"}
CandidateNames == {"cp437", "cp869", "cp858"}

\* UTF-16 code units of the texts: A, U+00E9, U+03C8, U+FFFD and the
\* surrogate pair of U+1F600
CodeUnits == {65, 233, 968, 65533, 55357, 56832}

MaxInput == 2
MaxCandidates == 3

SeqsUpTo(S, n) == UNION {[1..m -> S] : m \in 0..n}
Inputs == SeqsUpTo(CodeUnits, MaxInput)
CandidateLists == SeqsUpTo(CandidateNames, MaxCandidates)

-----------------------------------------------------------------------------
(* Other registries in the definition-table format: the static tables     *)
(* with one more codepage, "probe"                                        *)

\* a dense payload of n slots, every third one a hole
DenseValue(n) == [k \in 1..n |-> IF k % 3 = 0 THEN Hole ELSE Num(1000 + k)]

\* a sparse-diff payload with rows 0, 8 and 15 of width w
SparseValue(w) ==
  [i \in 1..16 |->
     IF i \in {1, 9, 16}
       THEN Obj([j \in 1..w |->
                   IF j % 2 = 0 THEN Num(2000 + 16 * (i - 1) + j) ELSE Hole])
       ELSE Hole]

\* an absent property is <<>>, a present one <<its value>>
ProbeExtends == {<<>>, <<"ascii">>, <<"cp858">>, <<"ibm437">>, <<"cp000">>}
ProbeOffsets == {<<>>, <<0>>, <<128>>, <<255>>}
\* a value is named by its form and size
ProbeValues ==
  {<<>>} \cup {<<"dense", n>> : n \in {0, 1, 2, 16, 17, 128, 129, 256}}
         \cup {<<"sparse", w>> : w \in {3, 16, 17}}

ProbeDefinition(p) ==
  [name |-> "Probe"]
    @@ (IF p.extends = <<>> THEN EmptyRecord ELSE [extends |-> p.extends[1]])
    @@ (IF p.offset = <<>> THEN EmptyRecord ELSE [offset |-> p.offset[1]])
    @@ (IF p.value = <<>> THEN EmptyRecord
        ELSE [value |-> IF p.value[1] = "dense" THEN DenseValue(p.value[2])
                        ELSE SparseValue(p.value[2])])

-----------------------------------------------------------------------------
(* What the build step reads *)

\* data/encodings.js: a parent, and a codepage that extends it
BuildEncodings ==
  [ascii |-> [name |-> "ASCII"],
   cp437 |-> [name |-> "USA, Standard Europe", languages |-> <<"en">>,
              aliases |-> <<"ibm437">>],
   cp858 |-> [name |-> "Euro", languages |-> <<"en">>, extends |-> "cp437"]]

\* the same codepages, with cp858 listing an alias that cp437 lists too
SharedAliasEncodings ==
  [BuildEncodings EXCEPT
     !["cp858"] = [name |-> "Euro", languages |-> <<"en">>,
                   extends |-> "cp437", aliases |-> <<"ibm858", "ibm437">>]]

\* the keys of data/encodings.js in the order they are written, which is
\* the order `for (const codepage in encodings)` visits them
EncodingKeys == <<"ascii", "cp437", "cp858">>

keysOf(enc) == SelectSeq(EncodingKeys, LAMBDA cp : cp \in DOMAIN enc)

AsciiFile == [k \in 1..TableSize |-> IF k <= 128 THEN k - 1 ELSE undefined]
Cp437File ==
  [k \in 1..TableSize |->
     IF k <= 128 THEN k - 1 ELSE IF k - 1 = 130 THEN 233 ELSE 9472 + k]

\* the file of the extending codepage: the parent's table, with other code
\* points at the bytes of changed and no line for the bytes of missing
ChildFile(changed, missing) ==
  [k \in 1..TableSize |->
     IF (k - 1) \in missing THEN undefined
     ELSE IF (k - 1) \in changed THEN 1000 + k
     ELSE Cp437File[k]]

\* bytes changed one by one, and in bulk: none, the upper half, all
ChangedBytes == SUBSET {65, 130, 200, 255}
ChangedRanges == {{}, 128..255, 0..255}
MissingBytes == SUBSET {0, 140, 255}

\* the parsed file of a codepage; `files` names cp858.txt by the bytes at
\* which it departs from cp437.txt
fileOf(cp) ==
  IF cp = "ascii" THEN AsciiFile
  ELSE IF cp = "cp437" THEN Cp437File
  ELSE ChildFile(files.changed, files.missing)

-----------------------------------------------------------------------------
(* The build step: src/unnamed/part_000                                    *)
(* It reads `encodings` (data/encodings.js) and one mapping file per       *)
(* codepage, and writes generated/definitions.ts and generated/aliases.ts. *)

null == -2

\* getCodepoints, lines 4-31: the 256 slots of the codepage's file, a hole
\* where the file has no line for the byte (or there is no file)
genGetCodepoints(cp) ==
  [k \in 1..TableSize |->
     IF cp \in DOMAIN encodings /\ fileOf(cp)[k] # undefined
       THEN fileOf(cp)[k] ELSE undefined]

\* getEncoding, lines 33-53: base[i] = codepoints[i] wherever
\* codepoints[i] !== null
RECURSIVE genGetEncoding(_)
genGetEncoding(cp) ==
  IF Has(encodings[cp], "extends")
    THEN LET base == genGetEncoding(encodings[cp].extends)
             codepoints == genGetCodepoints(cp)
         IN [k \in 1..TableSize |->
               IF codepoints[k] # null THEN codepoints[k] ELSE base[k]]
    ELSE genGetCodepoints(cp)

\* the number of characters JSON.stringify writes for a code point
Digits(n) ==
  IF n < 10 THEN 1 ELSE IF n < 100 THEN 2 ELSE IF n < 1000 THEN 3
  ELSE IF n < 10000 THEN 4 ELSE IF n < 100000 THEN 5
  ELSE IF n < 1000000 THEN 6 ELSE 7

\* JSON.stringify(array).length for an array of slots: brackets, commas,
\* "null" for a hole, the digits of a number, a row in its turn
RECURSIVE stringifyLength(_), stringifySum(_, _, _)
stringifySum(array, lo, hi) ==
  IF lo > hi THEN 0
  ELSE IF lo = hi
    THEN IF typeof(array[lo]) = "number" THEN Digits(array[lo].v)
         ELSE IF typeof(array[lo]) = "object" THEN stringifyLength(array[lo].v)
         ELSE 4
  ELSE stringifySum(array, lo, (lo + hi) \div 2)
         + stringifySum(array, (lo + hi) \div 2 + 1, hi)
stringifyLength(array) ==
  2 + (IF Len(array) = 0 THEN 0 ELSE Len(array) - 1)
    + stringifySum(array, 1, Len(array))

\* a number[] with holes as an array of slots
Slots(codepoints) ==
  [k \in 1..Len(codepoints) |->
     IF codepoints[k] = undefined THEN Hole ELSE Num(codepoints[k])]

\* lines 72-90: diffs, an array of 17 slots whose rows are arrays of 17
diffsOf(result, base) ==
  [row \in 1..17 |->
     IF \E i \in 0..(TableSize - 1) :
          /\ i \div 16 = row - 1
          /\ result[i + 1] # undefined /\ result[i + 1] # base[i + 1]
       THEN Obj([col \in 1..17 |->
                   LET i == (row - 1) * 16 + (col - 1)
                   IN IF /\ col <= 16
                         /\ result[i + 1] # undefined
                         /\ result[i + 1] # base[i + 1]
                        THEN Num(result[i + 1]) ELSE Hole])
       ELSE Hole]

\* lines 70, 79-80: the lowest differing byte, 256 when there is none
minimumOf(result, base) ==
  LET differing == {i \in 0..(TableSize - 1) :
                      result[i + 1] # undefined /\ result[i + 1] # base[i + 1]}
  IN IF differing = {} THEN 256 ELSE Lowest(differing)

\* getDefinition, lines 55-130. The `offset` of line 69 is the one lines
\* 92-111 assign and read; the `offset` of line 64 is the one returned.
getDefinition(cp) ==
  LET encoding == encodings[cp]
      result == genGetEncoding(cp)
      outerOffset == 0
  IN IF Has(encoding, "extends")
       THEN LET base == genGetEncoding(encoding.extends)
                diffs == diffsOf(result, base)
                offset == IF minimumOf(result, base) >= 128 THEN 128 ELSE 0
                diffString == stringifyLength(diffs)
                resultString ==
                  stringifyLength(Slots(SubSeq(result, offset + 1, Len(result))))
                value ==
                  IF diffString < resultString THEN diffs
                  ELSE IF offset > 0
                    THEN Slots(SubSeq(result, offset + 1, Len(result)))
                    ELSE Slots(result)
            IN [offset |-> outerOffset, value |-> value] @@ encoding
       ELSE [offset |-> outerOffset, value |-> Slots(result)] @@ encoding

\* JSON.stringify(value).replaceAll("null", "") read back as an array
\* literal: a hole for every "null", and the comma before the closing
\* bracket is a trailing comma, so a last slot that is a hole is lost
RECURSIVE asWritten(_)
asWritten(array) ==
  LET kept == IF Len(array) > 0 /\ typeof(array[Len(array)]) = "undefined"
                THEN Len(array) - 1 ELSE Len(array)
  IN [k \in 1..kept |->
        IF typeof(array[k]) = "object" THEN Obj(asWritten(array[k].v))
        ELSE array[k]]

\* generateDefinitions, lines 132-176: the record written for a codepage
writtenDefinition(cp) ==
  LET definition == getDefinition(cp)
  IN [name |-> definition.name]
       @@ (IF Has(definition, "languages")
             THEN [languages |-> definition.languages] ELSE EmptyRecord)
       @@ (IF Has(definition, "extends")
             THEN [extends |-> definition.extends] ELSE EmptyRecord)
       @@ (IF definition.offset # 0
             THEN [offset |-> definition.offset] ELSE EmptyRecord)
       @@ [value |->
             IF cp = "ascii"
               THEN asWritten([k \in 1..TableSize |->
                                 IF k <= 128 THEN Num(k - 1) ELSE Hole])
               ELSE asWritten(definition.value)]

generateDefinitions == [cp \in DOMAIN encodings |-> writtenDefinition(cp)]

\* generateAliases, lines 178-202: one [alias, codepage] pair per alias, the
\* codepages in the order of `for (const codepage in encodings)`; one line
\* is written per pair, and in the object read back a later line replaces
\* an earlier line of the same alias
generateAliases ==
  LET keys == keysOf(encodings)
      having(alias) ==
        {i \in 1..Len(keys) :
           /\ Has(encodings[keys[i]], "aliases")
           /\ \E k \in 1..Len(encodings[keys[i]].aliases) :
                encodings[keys[i]].aliases[k] = alias}
      all == UNION {{encodings[cp].aliases[k] :
                       k \in 1..Len(encodings[cp].aliases)} :
                      cp \in {d \in DOMAIN encodings :
                                Has(encodings[d], "aliases")}}
  IN [alias \in all |->
        keys[CHOOSE i \in having(alias) : \A j \in having(alias) : j <= i]]

-----------------------------------------------------------------------------
(* The tables in force *)

definitions ==
  IF loaded.tables = "base" THEN BaseDefinitions
  ELSE IF loaded.tables = "probe"
    THEN [probe |-> ProbeDefinition(loaded)] @@ BaseDefinitions
  ELSE IF loaded.tables \in {"definitions", "built"} THEN generateDefinitions
  ELSE EmptyRecord

aliases ==
  IF loaded.tables \in {"base", "probe"} THEN BaseAliases
  ELSE IF loaded.tables = "built" THEN generateAliases
  ELSE EmptyRecord

\* The tables are immutable and resolution is a pure function of them, so
\* the encodings of the static tables are computed once per name; any other
\* table is resolved on the call.
BaseEncodings ==
  [n \in Names |-> getEncoding(BaseDefinitions, BaseAliases, n)]

resolved(defs, als, cp) ==
  IF loaded.tables = "base" /\ cp \in Names
    THEN BaseEncodings[cp]
    ELSE getEncoding(defs, als, cp)

-----------------------------------------------------------------------------
(* encode *)

\* lines 103-119: a Uint8Array of input.length bytes, one per index c
encode(defs, als, text, cp) ==
  LET definition == resolved(defs, als, cp)
  IN [k \in 1..Len(text) |->
        LET position == findIndex(definition.codepoints, codePointAt(text, k - 1))
        IN IF position # NotFound THEN Uint8(position) ELSE QuestionMark]

-----------------------------------------------------------------------------
(* autoEncode *)

\* lines 143-156: the current fragment's codepage is tried first
stickyLookup(defs, als, cur, codePoint) ==
  IF Truthy(cur.codepage)
    THEN LET position == findIndex(resolved(defs, als, cur.codepage[1]).codepoints,
                                   codePoint)
         IN IF position # NotFound
              THEN [availableCodepage |-> cur.codepage, char |-> position]
              ELSE [availableCodepage |-> None, char |-> 0]
    ELSE [availableCodepage |-> None, char |-> 0]

\* lines 159-170: the candidates in the given order, from index i on
RECURSIVE candidateScanFrom(_, _, _, _, _)
candidateScanFrom(defs, als, cands, codePoint, i) ==
  IF i >= Len(cands) THEN [availableCodepage |-> None, char |-> 0]
  ELSE LET position == findIndex(resolved(defs, als, cands[i + 1]).codepoints,
                                 codePoint)
       IN IF position # NotFound
            THEN [availableCodepage |-> Some(cands[i + 1]), char |-> position]
            ELSE candidateScanFrom(defs, als, cands, codePoint, i + 1)

\* a scan that goes through the candidates from the last to the first
RECURSIVE candidateScanDown(_, _, _, _, _)
candidateScanDown(defs, als, cands, codePoint, i) ==
  IF i < 0 THEN [availableCodepage |-> None, char |-> 0]
  ELSE LET position == findIndex(resolved(defs, als, cands[i + 1]).codepoints,
                                 codePoint)
       IN IF position # NotFound
            THEN [availableCodepage |-> Some(cands[i + 1]), char |-> position]
            ELSE candidateScanDown(defs, als, cands, codePoint, i - 1)

candidateScanReversed(defs, als, cands, codePoint) ==
  candidateScanDown(defs, als, cands, codePoint, Len(cands) - 1)

candidateScan(defs, als, cands, codePoint) == candidateScanFrom(defs, als, cands, codePoint, 0)

\* a choice that skips the lookup in the current fragment's codepage
chooseCodepageNoSticky(defs, als, cur, cands, codePoint) ==
  LET scanned == candidateScan(defs, als, cands, codePoint)
  IN IF ~Truthy(scanned.availableCodepage)
       THEN [availableCodepage |->
               IF Truthy(cur.codepage) THEN cur.codepage
               ELSE IF Len(cands) > 0 THEN Some(cands[1]) ELSE None,
             char |-> QuestionMark]
       ELSE scanned

\* lines 143-176: availableCodepage and char for one code point
chooseCodepage(defs, als, cur, cands, codePoint) ==
  LET sticky == stickyLookup(defs, als, cur, codePoint)
      scanned == IF ~Truthy(sticky.availableCodepage)
                   THEN candidateScan(defs, als, cands, codePoint)
                   ELSE sticky
  IN IF ~Truthy(scanned.availableCodepage)
       THEN [availableCodepage |->
               IF Truthy(cur.codepage) THEN cur.codepage
               ELSE IF Len(cands) > 0 THEN Some(cands[1]) ELSE None,
             char |-> QuestionMark]
       ELSE scanned

\* new Uint8Array(chars)
Uint8Array(chars) == [k \in 1..Len(chars) |-> Uint8(chars[k])]

-----------------------------------------------------------------------------
(* encode(input, codepage) *)

InitEncode ==
  /\ loaded = [tables |-> "base"]
  /\ pc = "encode"
  /\ input \in Inputs
  /\ codepage \in Names
  /\ candidates = <<>>
  /\ c = 0
  /\ output = <<>>
  /\ fragments = <<>>
  /\ currentFragment = [codepage |-> None, chars |-> <<>>]
  /\ encodings = EmptyRecord
  /\ files = [changed |-> {}, missing |-> {}]

Encode ==
  /\ pc = "encode"
  /\ output' = encode(definitions, aliases, input, codepage)
  /\ pc' = "done"
  /\ UNCHANGED <<loaded, input, codepage, candidates, c,
                 fragments, currentFragment, encodings, files>>

NextEncode == Encode

SpecEncode == InitEncode /\ [][NextEncode]_vars

-----------------------------------------------------------------------------
(* autoEncode(input, candidates) *)

InitAuto ==
  /\ loaded = [tables |-> "base"]
  /\ pc = "autoEncode"
  /\ input \in Inputs
  /\ codepage = "ascii"
  /\ candidates \in CandidateLists
  /\ c = 0
  /\ output = <<>>
  /\ fragments = <<>>
  /\ currentFragment = [codepage |-> None, chars |-> <<>>]
  /\ encodings = EmptyRecord
  /\ files = [changed |-> {}, missing |-> {}]

\* lines 140-193: one turn of the loop
AutoEncodeStep ==
  /\ pc = "autoEncode"
  /\ c < Len(input)
  /\ LET chosen == chooseCodepage(definitions, aliases, currentFragment, candidates,
                                  codePointAt(input, c))
         switch == currentFragment.codepage # chosen.availableCodepage
         opened == IF switch
                     THEN [codepage |-> chosen.availableCodepage, chars |-> <<>>]
                     ELSE currentFragment
     IN /\ fragments' =
             IF switch /\ Truthy(currentFragment.codepage)
               THEN Append(fragments,
                           [codepage |-> currentFragment.codepage[1],
                            bytes |-> Uint8Array(currentFragment.chars)])
               ELSE fragments
        /\ currentFragment' =
             [opened EXCEPT !.chars = Append(opened.chars, chosen.char)]
  /\ c' = c + 1
  /\ UNCHANGED <<loaded, pc, input, codepage, candidates, output,
                 encodings, files>>

\* lines 195-202: the trailing fragment, and the return
AutoEncodeReturn ==
  /\ pc = "autoEncode"
  /\ c >= Len(input)
  /\ fragments' =
       IF Truthy(currentFragment.codepage)
         THEN Append(fragments,
                     [codepage |-> currentFragment.codepage[1],
                      bytes |-> Uint8Array(currentFragment.chars)])
         ELSE fragments
  /\ pc' = "done"
  /\ UNCHANGED <<loaded, input, codepage, candidates, c, output,
                 currentFragment, encodings, files>>

NextAuto == AutoEncodeStep \/ AutoEncodeReturn

SpecAuto == InitAuto /\ [][NextAuto]_vars

-----------------------------------------------------------------------------
(* getEncoding(codepage) *)

InitResolve ==
  /\ \E e \in ProbeExtends, o \in ProbeOffsets, v \in ProbeValues :
       loaded = [tables |-> "probe", extends |-> e, offset |-> o, value |-> v]
  /\ pc = "getEncoding"
  /\ input = <<>>
  /\ codepage = "probe"
  /\ candidates = <<>>
  /\ c = 0
  /\ output = <<>>
  /\ fragments = <<>>
  /\ currentFragment = [codepage |-> None, chars |-> <<>>]
  /\ encodings = EmptyRecord
  /\ files = [changed |-> {}, missing |-> {}]

GetEncoding ==
  /\ pc = "getEncoding"
  /\ output' = getEncoding(definitions, aliases, codepage)
  /\ pc' = "done"
  /\ UNCHANGED <<loaded, input, codepage, candidates, c,
                 fragments, currentFragment, encodings, files>>

NextResolve == GetEncoding

SpecResolve == InitResolve /\ [][NextResolve]_vars

-----------------------------------------------------------------------------
(* generateDefinitions(); generateAliases(); then getEncoding(codepage) *)

InitBuild ==
  /\ loaded = [tables |-> "none"]
  /\ pc = "generateDefinitions"
  /\ input = <<>>
  /\ codepage = "cp858"
  /\ candidates = <<>>
  /\ c = 0
  /\ output = <<>>
  /\ fragments = <<>>
  /\ currentFragment = [codepage |-> None, chars |-> <<>>]
  /\ encodings \in {BuildEncodings, SharedAliasEncodings}
  /\ \E changed \in ChangedBytes, range \in ChangedRanges, missing \in MissingBytes :
       files = [changed |-> changed \cup range, missing |-> missing]

GenerateDefinitions ==
  /\ pc = "generateDefinitions"
  /\ loaded' = [tables |-> "definitions"]
  /\ pc' = "generateAliases"
  /\ UNCHANGED <<input, codepage, candidates, c, output, fragments,
                 currentFragment, encodings, files>>

GenerateAliases ==
  /\ pc = "generateAliases"
  /\ loaded' = [tables |-> "built"]
  /\ pc' = "getEncoding"
  /\ UNCHANGED <<input, codepage, candidates, c, output,
                 fragments, currentFragment, encodings, files>>

NextBuild == GenerateDefinitions \/ GenerateAliases \/ GetEncoding

SpecBuild == InitBuild /\ [][NextBuild]_vars

-----------------------------------------------------------------------------
(* Notions the properties are stated with *)

\* the number of Unicode code points of a string: its code units, less one
\* for every surrogate pair
CodePointLength(s) ==
  Len(s) - Cardinality({k \in 1..(Len(s) - 1) :
                          /\ s[k] >= 55296 /\ s[k] <= 56319
                          /\ s[k + 1] >= 56320 /\ s[k + 1] <= 57343})

\* the table the tables in force resolve for a name
TableOf(cp) == resolved(definitions, aliases, cp).codepoints

\* byte indexes of a table that hold a code point
BytesFor(table, codePoint) ==
  {b \in 0..(TableSize - 1) : b + 1 <= Len(table) /\ table[b + 1] = codePoint}

\* the name after one step of alias redirection is no identifier
IsUnknown(cp) ==
  (IF cp \in DOMAIN aliases THEN aliases[cp] ELSE cp) \notin DOMAIN definitions

\* the returned fragments laid out per input position
RECURSIVE Flat(_)
Flat(frags) ==
  IF frags = <<>> THEN <<>>
  ELSE [k \in 1..Len(frags[1].bytes) |->
          [codepage |-> frags[1].codepage, byte |-> frags[1].bytes[k]]]
       \o Flat(Tail(frags))

\* JS index of the first input position of fragment number n
RECURSIVE StartOf(_, _)
StartOf(frags, n) ==
  IF n <= 1 THEN 0 ELSE Len(frags[n - 1].bytes) + StartOf(frags, n - 1)

-----------------------------------------------------------------------------
(* Properties of encode, under SpecEncode *)

\* C1: encode returns, for every index of the input in order, the lowest
\* byte index whose entry of the codepage's resolved table is the code
\* point at that index, and 0x3F when no byte index holds it.
C1_LowestByteOr3F ==
  pc = "done" =>
    /\ Len(output) = Len(input)
    /\ \A k \in 1..Len(input) :
         LET held == BytesFor(TableOf(codepage), codePointAt(input, k - 1))
         IN IF held = {} THEN output[k] = QuestionMark
            ELSE output[k] = Lowest(held)

\* U+00E9 sits at 0x82 and 0xC8 of cp858, U+FFFD nowhere in it
C1_Witness ==
  /\ pc = "done"
  /\ codepage = "cp858"
  /\ input = <<233, 65533>>
  /\ output = <<130, 63>>

\* C2: the length of encode's result is the number of code points of the
\* input, also when a code point above U+FFFF takes two code units.
C2_OneBytePerCodePoint ==
  pc = "done" => Len(output) = CodePointLength(input)

\* C7: a name that is no identifier after one alias redirection gets the
\* definition and table of "ascii", encodes as "ascii" does, and is not
\* supported.
C7_FallbackToAscii ==
  (pc = "done" /\ IsUnknown(codepage)) =>
    /\ getEncoding(definitions, aliases, codepage).name = "ASCII"
    /\ getEncoding(definitions, aliases, codepage).codepoints =
         [k \in 1..TableSize |-> IF k <= 128 THEN k - 1 ELSE Sentinel]
    /\ getEncoding(definitions, aliases, codepage) =
         getEncoding(definitions, aliases, "ascii")
    /\ output = encode(definitions, aliases, input, "ascii")
    /\ \A k \in 1..Len(input) :
         output[k] = IF input[k] < 128 THEN input[k]
                     ELSE IF input[k] = Sentinel THEN 128
                     ELSE QuestionMark
    /\ ~supports(definitions, aliases, codepage)

\* "oem" is an alias of a codepage the registry does not hold
C7_Witness ==
  /\ pc = "done"
  /\ codepage = "oem"
  /\ input = <<65, 233>>
  /\ output = <<65, 63>>

\* C9: the sentinel is never a mapping: U+FFFD in the input is emitted as
\* 0x3F, and every other emitted byte is 0x3F or the index of an entry that
\* is not the sentinel.
C9_SentinelIsNoMapping ==
  pc = "done" =>
    \A k \in 1..Len(input) :
      \/ output[k] = QuestionMark
      \/ /\ codePointAt(input, k - 1) # Sentinel
         /\ TableOf(codepage)[output[k] + 1] # Sentinel

-----------------------------------------------------------------------------
(* Properties of autoEncode, under SpecAuto *)

\* C3: with a non-empty candidate list, the byte lengths of the returned
\* fragments add up to the number of code points of the input.
C3_EveryCodePointOnce ==
  (pc = "done" /\ Len(candidates) > 0) =>
    Len(Flat(fragments)) = CodePointLength(input)

\* C4: at every boundary between two consecutive fragments, the code point
\* the later fragment starts with has no entry in the table of the earlier
\* fragment's codepage.
C4_SwitchOnlyWhenCurrentFails ==
  pc = "done" =>
    \A n \in 2..Len(fragments) :
      BytesFor(TableOf(fragments[n - 1].codepage),
               codePointAt(input, StartOf(fragments, n))) = {}

\* U+00E9 is in cp437 and not in cp869, U+03C8 the other way round
C4_Witness ==
  /\ pc = "done"
  /\ input = <<233, 968>>
  /\ candidates = <<"cp437", "cp869">>
  /\ fragments = <<[codepage |-> "cp437", bytes |-> <<130>>],
                   [codepage |-> "cp869", bytes |-> <<246>>]>>

\* C5: where the codepage of the position before does not hold the code
\* point (or there is no position before) and some candidate holds it, the
\* position is encoded under the first such candidate of the list, as the
\* lowest byte index holding it in that candidate's table.
C5_FirstCandidateWins ==
  pc = "done" =>
    \A p \in 1..Len(input) :
      LET codePoint == codePointAt(input, p - 1)
          flat == Flat(fragments)
          holding == {i \in 1..Len(candidates) :
                        BytesFor(TableOf(candidates[i]), codePoint) # {}}
          sticks == /\ p > 1
                    /\ BytesFor(TableOf(flat[p - 1].codepage), codePoint) # {}
      IN (holding # {} /\ ~sticks) =>
           /\ flat[p].codepage = candidates[Lowest(holding)]
           /\ flat[p].byte =
                Lowest(BytesFor(TableOf(candidates[Lowest(holding)]), codePoint))

\* after U+03C8 under cp869, U+00E9 is held by cp437 and by cp858
C5_Witness ==
  /\ pc = "done"
  /\ input = <<968, 233>>
  /\ candidates = <<"cp869", "cp437", "cp858">>
  /\ fragments = <<[codepage |-> "cp869", bytes |-> <<246>>],
                   [codepage |-> "cp437", bytes |-> <<130>>]>>

\* C6: autoEncode with no candidates and a non-empty input does not return.
C6_NoCandidatesNeverReturns ==
  ~(pc = "done" /\ Len(candidates) = 0 /\ Len(input) > 0)

-----------------------------------------------------------------------------
(* Properties of getEncoding, under SpecResolve *)

\* a dense value ends at or before byte 255
DenseFits(definition) ==
  (Has(definition, "value") /\ Len(definition.value) # SparseLen) =>
    (IF Has(definition, "offset") THEN definition.offset ELSE 0)
      + Len(definition.value) <= TableSize

\* the table has 256 entries, each a code point or the sentinel
IsFullTable(codepoints) ==
  /\ Len(codepoints) = TableSize
  /\ \A k \in 1..Len(codepoints) :
       codepoints[k] # undefined /\ codepoints[k] \in 0..1114111

\* C8 as stated: for every codepage of a registry with an acyclic extends
\* chain, offsets in 0..255 and values in sparse-diff or dense form, the
\* resolved table has exactly 256 entries, each a code point or the
\* sentinel.
C8_TableOf256 ==
  pc = "done" => IsFullTable(output.codepoints)

\* C8, amended: the same, for codepages whose dense value, laid at its
\* offset, ends at or before byte 255 (as do those of its extends chain).
C8_TableOf256WhenDenseFits ==
  (pc = "done" /\ DenseFits(definitions[codepage])) =>
    IsFullTable(output.codepoints)

\* dense at offset 128 over cp858: 0x80 is overridden, 0x82 is a hole of
\* the value and keeps U+00E9 from cp437, 0xFF is past the value
C8_Witness ==
  /\ pc = "done"
  /\ Has(definitions[codepage], "extends")
  /\ definitions[codepage].extends = "cp858"
  /\ Has(definitions[codepage], "offset")
  /\ definitions[codepage].offset = 128
  /\ Has(definitions[codepage], "value")
  /\ Len(definitions[codepage].value) = 17
  /\ Len(output.codepoints) = 256
  /\ output.codepoints[129] = 1001
  /\ output.codepoints[131] = 233
  /\ output.codepoints[256] = 9472 + 256

-----------------------------------------------------------------------------
(* Properties of the build step, under SpecBuild *)

\* the form getDefinition chose for the codepage, as the lines 92-118 do
ChoseTruncatedDense(cp) ==
  LET result == genGetEncoding(cp)
      base == genGetEncoding(encodings[cp].extends)
  IN /\ minimumOf(result, base) >= 128
     /\ ~(stringifyLength(diffsOf(result, base))
            < stringifyLength(Slots(SubSeq(result, 129, Len(result)))))

\* C10: for a codepage that extends another, the written record carries the
\* offset its value starts at (128 for the dense form cut to the upper
\* half), and the table resolved from what was written has, at every byte
\* the build step's table defines, the code point of the build step's table.
C10_WrittenDefinitionRoundTrips ==
  (pc = "done" /\ Has(encodings[codepage], "extends")) =>
    /\ ChoseTruncatedDense(codepage) =>
         (Has(definitions[codepage], "offset")
            /\ definitions[codepage].offset = 128)
    /\ \A k \in 1..TableSize :
         genGetEncoding(codepage)[k] # undefined =>
           output.codepoints[k] = genGetEncoding(codepage)[k]

====
